---- MODULE Spec2Model ----
(***************************************************************************)
(* A model of tbapy's TBA client (src/tbapy/main.py): the construction     *)
(* time status check, the key normalizer, the request dispatcher and the   *)
(* facade methods, each of which formats a relative path, fetches it and   *)
(* wraps the decoded JSON.  The remote service is the environment: every   *)
(* request is answered by a nondeterministically chosen decoded JSON value.*)
(***************************************************************************)
EXTENDS Integers, Sequences, FiniteSets, TLC

VARIABLES phase, auth_key, sent, firstReq, lastReq, calls, last

vars == <<phase, auth_key, sent, firstReq, lastReq, calls, last>>

(***************************************************************************)
(* Bounds of the model.                                                    *)
(***************************************************************************)
\* number of method calls made on a constructed client
MaxCalls == 2
\* length of a decoded JSON list returned by the service
MaxItems == 2

(***************************************************************************)
(* Python values: None, int and str, as the facade's arguments.            *)
(***************************************************************************)
None == [t |-> "none", n |-> 0, s |-> ""]
IntV(n) == [t |-> "int", n |-> n, s |-> ""]
StrV(s) == [t |-> "str", n |-> 0, s |-> s]

\* bool(v): None, 0 and '' are false
Truthy(v) ==
  CASE v.t = "none" -> FALSE
    [] v.t = "int" -> v.n # 0
    [] OTHER -> v.s # ""

Digit(d) ==
  CASE d = 0 -> "0" [] d = 1 -> "1" [] d = 2 -> "2" [] d = 3 -> "3"
    [] d = 4 -> "4" [] d = 5 -> "5" [] d = 6 -> "6" [] d = 7 -> "7"
    [] d = 8 -> "8" [] OTHER -> "9"

RECURSIVE NatStr(_)
NatStr(n) == IF n < 10 THEN Digit(n) ELSE NatStr(n \div 10) \o Digit(n % 10)

\* str(n) of an int
DecStr(n) == IF n < 0 THEN "-" \o NatStr(0 - n) ELSE NatStr(n)

\* '%s' % v
Fmt(v) ==
  CASE v.t = "none" -> "None"
    [] v.t = "int" -> DecStr(v.n)
    [] OTHER -> v.s

\* str.isdigit() of a one-character string
IsDigit(c) == c \in {"0", "1", "2", "3", "4", "5", "6", "7", "8", "9"}

URL_PRE == "https://www.thebluealliance.com/api/v3/"

(***************************************************************************)
(* Decoded JSON bodies: a mapping (its keys, in order) or a list (its      *)
(* elements, named by labels).                                             *)
(***************************************************************************)
NoJson == [kind |-> "null", keys |-> <<>>, items |-> <<>>]
JsonMap(ks) == [kind |-> "map", keys |-> ks, items |-> <<>>]
JsonList(xs) == [kind |-> "list", keys |-> <<>>, items |-> xs]

\* the list of the first n elements the service holds
Items(n) == [i \in 1..n |-> "raw" \o NatStr(i)]
ItemSeqs == {Items(n) : n \in 0..MaxItems}
Responses ==
  {JsonMap(<<"city">>), JsonMap(<<"Error">>)} \cup {JsonList(xs) : xs \in ItemSeqs}

\* iteration over a decoded value: a mapping yields its keys
Iter(json) == IF json.kind = "map" THEN json.keys ELSE json.items

(***************************************************************************)
(* Record wrappers (tbapy.models).                                         *)
(***************************************************************************)
NoResult == [kind |-> "none", type |-> "", json |-> NoJson, elems |-> <<>>]
\* T(json): one record over the decoded value
Wrap(T, json) == [kind |-> "record", type |-> T, json |-> json, elems |-> <<>>]
\* [T(raw) for raw in json]
WrapEach(T, json) ==
  [kind |-> "list", type |-> T, json |-> NoJson,
   elems |-> [i \in 1..Len(Iter(json)) |-> [type |-> T, data |-> Iter(json)[i]]]]
\* the decoded value returned as it is
Raw(json) == [kind |-> "raw", type |-> "", json |-> json, elems |-> <<>>]
\* key in record
Contains(rec, k) == \E i \in 1..Len(Iter(rec.json)) : Iter(rec.json)[i] = k

(***************************************************************************)
(* What a method body does: the path it formats, whether it reaches the    *)
(* dispatcher, and how it wraps the decoded value.                         *)
(***************************************************************************)
\* T(self._fetch(path))
FetchOne(T, path) ==
  [fetch |-> TRUE, path |-> path, shape |-> "record", rtype |-> T, err |-> ""]
\* [T(raw) for raw in self._fetch(path)]
FetchEach(T, path) ==
  [fetch |-> TRUE, path |-> path, shape |-> "list", rtype |-> T, err |-> ""]
\* self._fetch(path)
FetchRaw(path) ==
  [fetch |-> TRUE, path |-> path, shape |-> "raw", rtype |-> "", err |-> ""]
\* the body falls off its end: the call returns None
ReturnNone ==
  [fetch |-> FALSE, path |-> "", shape |-> "none", rtype |-> "", err |-> ""]
\* an exception raised while the path is being formatted
Raise(e) ==
  [fetch |-> FALSE, path |-> "", shape |-> "none", rtype |-> "", err |-> e]

\* the GET issued by _fetch
fetch(url, key) == [url |-> URL_PRE \o url, path |-> url, auth |-> key]
NoReq == [url |-> "", path |-> "", auth |-> ""]

\* the prefix added whatever the type of the identifier
team_key_always_prefixes(identifier) == "frc" \o Fmt(identifier)

team_key(identifier) ==
  IF identifier.t = "str" THEN identifier.s ELSE "frc" \o Fmt(identifier)

status == FetchOne("Status", "status")

\* the page segment formatted before the year segment
teams_page_first(page, year, keys) ==
  IF Truthy(year)
  THEN IF keys
       THEN FetchRaw("teams/" \o Fmt(page) \o "/" \o Fmt(year) \o "/keys")
       ELSE FetchEach("Team", "teams/" \o Fmt(page) \o "/" \o Fmt(year))
  ELSE IF keys
       THEN FetchRaw("teams/" \o Fmt(page) \o "/keys")
       ELSE FetchEach("Team", "teams/" \o Fmt(page))

teams(page, year, keys) ==
  IF Truthy(year)
  THEN IF keys
       THEN FetchRaw("teams/" \o Fmt(year) \o "/" \o Fmt(page) \o "/keys")
       ELSE FetchEach("Team", "teams/" \o Fmt(year) \o "/" \o Fmt(page))
  ELSE IF keys
       THEN FetchRaw("teams/" \o Fmt(page) \o "/keys")
       ELSE FetchEach("Team", "teams/" \o Fmt(page))

team(team_id, simple) ==
  IF simple
  THEN FetchOne("Team", "team/" \o team_key(team_id) \o "/simple")
  ELSE FetchOne("Team", "team/" \o team_key(team_id))

team_events(team_id, year, keys) ==
  IF Truthy(year)
  THEN IF keys
       THEN FetchRaw("team/" \o team_key(team_id) \o "/events/" \o Fmt(year) \o "/keys")
       ELSE FetchEach("Event", "team/" \o team_key(team_id) \o "/events/" \o Fmt(year))
  ELSE IF keys
       THEN FetchRaw("team/" \o team_key(team_id) \o "/events/keys")
       ELSE FetchEach("Event", "team/" \o team_key(team_id) \o "/events")

team_awards(team_id, year, event_key) ==
  IF Truthy(event_key)
  THEN FetchEach("Award", "team/" \o team_key(team_id) \o "/event/" \o Fmt(event_key) \o "/awards")
  ELSE IF Truthy(year)
       THEN FetchEach("Award", "team/" \o team_key(team_id) \o "/awards/" \o Fmt(year))
       ELSE FetchEach("Award", "team/" \o team_key(team_id) \o "/awards")

\* the year tested before the event
team_matches_year_first(team_id, event_key, year, keys) ==
  IF Truthy(year)
  THEN IF keys
       THEN FetchRaw("team/" \o team_key(team_id) \o "/matches/" \o Fmt(year) \o "/keys")
       ELSE FetchEach("Match", "team/" \o team_key(team_id) \o "/matches/" \o Fmt(year))
  ELSE IF Truthy(event_key)
       THEN IF keys
            THEN FetchRaw("team/" \o team_key(team_id) \o "/event/" \o Fmt(event_key) \o "/matches/keys")
            ELSE FetchEach("Match", "team/" \o team_key(team_id) \o "/event/" \o Fmt(event_key) \o "/matches")
       ELSE ReturnNone

team_matches(team_id, event_key, year, keys) ==
  IF Truthy(event_key)
  THEN IF keys
       THEN FetchRaw("team/" \o team_key(team_id) \o "/event/" \o Fmt(event_key) \o "/matches/keys")
       ELSE FetchEach("Match", "team/" \o team_key(team_id) \o "/event/" \o Fmt(event_key) \o "/matches")
  ELSE IF Truthy(year)
       THEN IF keys
            THEN FetchRaw("team/" \o team_key(team_id) \o "/matches/" \o Fmt(year) \o "/keys")
            ELSE FetchEach("Match", "team/" \o team_key(team_id) \o "/matches/" \o Fmt(year))
       ELSE ReturnNone

team_years(team_id) ==
  FetchRaw("team/" \o team_key(team_id) \o "/years_participated")

team_media(team_id, year) ==
  FetchEach("Media", "team/" \o team_key(team_id) \o "/media/" \o Fmt(year))

team_robots(team_id) ==
  FetchEach("Robot", "team/" \o team_key(team_id) \o "/robots")

team_districts(team_id) ==
  FetchEach("District", "team/" \o team_key(team_id) \o "/districts")

\* the format string is passed to _fetch without its argument
team_social_media(team_id) ==
  FetchEach("Profile", "team/%s/social_media")

\* simple tested before keys
events_simple_first(year, keys, simple) ==
  IF simple THEN FetchRaw("events/" \o Fmt(year) \o "/simple")
  ELSE IF keys THEN FetchRaw("events/" \o Fmt(year) \o "/keys")
  ELSE FetchEach("Event", "events/" \o Fmt(year))

events(year, keys, simple) ==
  IF keys THEN FetchRaw("events/" \o Fmt(year) \o "/keys")
  ELSE IF simple THEN FetchRaw("events/" \o Fmt(year) \o "/simple")
  ELSE FetchEach("Event", "events/" \o Fmt(year))

event(event_key, simple) ==
  IF simple
  THEN FetchOne("Event", "event/" \o Fmt(event_key) \o "/simple")
  ELSE FetchOne("Event", "event/" \o Fmt(event_key))

event_alliances(event_key) ==
  FetchEach("Alliance", "event/" \o Fmt(event_key) \o "/alliances")

event_district_points(event_key) ==
  FetchOne("DistrictPoints", "event/" \o Fmt(event_key) \o "/district_points")

event_insights(event_key) ==
  FetchOne("Insights", "event/" \o Fmt(event_key) \o "/insights")

event_oprs(event_key) ==
  FetchOne("OPRs", "event/" \o Fmt(event_key) \o "/oprs")

event_predictions(event_key) ==
  FetchOne("Predictions", "event/" \o Fmt(event_key) \o "/predictions")

event_rankings(event_key) ==
  FetchOne("Rankings", "event/" \o Fmt(event_key) \o "/rankings")

event_teams(event_key, keys) ==
  IF keys
  THEN FetchRaw("event/" \o Fmt(event_key) \o "/teams/keys")
  ELSE FetchEach("Team", "event/" \o Fmt(event_key) \o "/teams")

event_awards(event_key) ==
  FetchEach("Award", "event/" \o Fmt(event_key) \o "/awards")

event_matches(event_key, keys) ==
  IF keys
  THEN FetchRaw("event/" \o Fmt(event_key) \o "/matches/keys")
  ELSE FetchEach("Match", "event/" \o Fmt(event_key) \o "/matches")

\* the year prepended whatever the event key starts with
match_year_always(key, year, event_key, type, number, round, simple) ==
  IF Truthy(key)
  THEN FetchOne("Match", "match/" \o Fmt(key))
  ELSE IF event_key.t # "str" THEN Raise("TypeError")
  ELSE IF event_key.s = "" THEN Raise("IndexError")
  ELSE FetchOne("Match",
         "match/" \o Fmt(year) \o Fmt(event_key) \o "_" \o type \o Fmt(number)
           \o (IF ~(type = "qm") THEN "m" \o Fmt(round) ELSE ""))

\* event[0].isdigit(); None is not subscriptable and '' has no element 0
match(key, year, event_key, type, number, round, simple) ==
  IF Truthy(key)
  THEN FetchOne("Match", "match/" \o Fmt(key))
  ELSE IF event_key.t # "str" THEN Raise("TypeError")
  ELSE IF event_key.s = "" THEN Raise("IndexError")
  ELSE FetchOne("Match",
         "match/"
           \o (IF ~IsDigit(SubSeq(event_key.s, 1, 1)) THEN Fmt(year) ELSE "")
           \o Fmt(event_key) \o "_" \o type \o Fmt(number)
           \o (IF ~(type = "qm") THEN "m" \o Fmt(round) ELSE ""))

districts(year) ==
  FetchEach("District", "districts/" \o Fmt(year))

district_events(district, keys) ==
  IF keys
  THEN FetchRaw("district/" \o Fmt(district) \o "/events/keys")
  ELSE FetchEach("Event", "district/" \o Fmt(district) \o "/events")

district_rankings(district) ==
  FetchEach("DistrictRanking", "district/" \o Fmt(district) \o "/rankings")

district_teams(district, year, keys) ==
  IF keys
  THEN FetchRaw("district/" \o Fmt(district) \o "/" \o Fmt(year) \o "/teams/keys")
  ELSE FetchEach("Team", "district/" \o Fmt(district) \o "/" \o Fmt(year) \o "/teams")

(***************************************************************************)
(* Arguments the calls are made with.                                      *)
(***************************************************************************)
AuthKeys == {"TjUTfbPByPvq"}
Identifiers == {IntV(254), IntV(2017), IntV(0), IntV(-5), StrV("frc254"), StrV("254")}
TeamIds == {IntV(254), IntV(2017), StrV("frc254")}
TeamEvents == {None, StrV(""), StrV("chcmp")}
EventKeys == {StrV("chcmp"), StrV("2017chcmp")}
OptEvents == EventKeys \cup {None, StrV("")}
Years == {IntV(2017), IntV(2016)}
OptYears == {None, IntV(0), IntV(2017)}
Pages == {IntV(0), IntV(1)}
MatchKeys == {StrV("2017chcmp_qm2")}
MatchTypes == {"qm", "sf"}
Numbers == {IntV(2)}
Rounds == {None, IntV(3)}
Districts == {StrV("2017chs"), StrV("ne")}

NoArgs ==
  [team |-> None, event |-> None, year |-> None, page |-> None, key |-> None,
   number |-> None, round |-> None, district |-> None, identifier |-> None,
   type |-> "", keys |-> FALSE, simple |-> FALSE]

NoCall ==
  [method |-> "", args |-> NoArgs, nreq |-> 0, path |-> "", resp |-> NoJson,
   outcome |-> "", err |-> "", result |-> NoResult, ret |-> ""]

\* an `Error` key looked for in every decoded value
Complete_checks_error(plan, resp) ==
  IF plan.err # ""
  THEN [outcome |-> "raised", err |-> plan.err, result |-> NoResult]
  ELSE IF Contains(Raw(resp), "Error")
  THEN [outcome |-> "raised", err |-> "APIKeyError", result |-> NoResult]
  ELSE [outcome |-> "returned", err |-> "",
        result |-> CASE plan.shape = "record" -> Wrap(plan.rtype, resp)
                     [] plan.shape = "list" -> WrapEach(plan.rtype, resp)
                     [] plan.shape = "raw" -> Raw(resp)
                     [] OTHER -> NoResult]

(***************************************************************************)
(* The end of a call: nothing in _fetch or in a method body looks into     *)
(* the decoded value, which is wrapped as the body says and returned.      *)
(***************************************************************************)
Complete(plan, resp) ==
  IF plan.err # ""
  THEN [outcome |-> "raised", err |-> plan.err, result |-> NoResult]
  ELSE [outcome |-> "returned", err |-> "",
        result |-> CASE plan.shape = "record" -> Wrap(plan.rtype, resp)
                     [] plan.shape = "list" -> WrapEach(plan.rtype, resp)
                     [] plan.shape = "raw" -> Raw(resp)
                     [] OTHER -> NoResult]

\* the status never looked into
init_never_raises(st) == FALSE

\* if 'Error' in status
init_raises(st) == Contains(st, "Error")

Init ==
  /\ phase = "none"
  /\ auth_key = ""
  /\ sent = 0
  /\ firstReq = NoReq
  /\ lastReq = NoReq
  /\ calls = 0
  /\ last = NoCall

\* TBA(auth_key)
Construct(k, resp) ==
  /\ phase = "none"
  /\ auth_key' = k
  /\ sent' = sent + 1
  /\ firstReq' = fetch(status.path, k)
  /\ lastReq' = fetch(status.path, k)
  /\ LET st == Complete(status, resp).result
         failed == init_raises(st)
     IN /\ phase' = IF failed THEN "failed" ELSE "ready"
        /\ last' = [NoCall EXCEPT !.method = "__init__", !.nreq = 1,
                      !.path = status.path, !.resp = resp,
                      !.outcome = IF failed THEN "raised" ELSE "returned",
                      !.err = IF failed THEN "APIKeyError" ELSE ""]
  /\ UNCHANGED calls

\* one call of a facade method on the constructed client
Invoke(method, args, plan, resp) ==
  /\ phase = "ready"
  /\ calls < MaxCalls
  /\ calls' = calls + 1
  /\ IF plan.fetch
     THEN /\ sent' = sent + 1
          /\ lastReq' = fetch(plan.path, auth_key)
     ELSE UNCHANGED <<sent, lastReq>>
  /\ LET done == Complete(plan, IF plan.fetch THEN resp ELSE NoJson)
     IN last' = [method |-> method, args |-> args,
                 nreq |-> IF plan.fetch THEN 1 ELSE 0,
                 path |-> plan.path,
                 resp |-> IF plan.fetch THEN resp ELSE NoJson,
                 outcome |-> done.outcome, err |-> done.err,
                 result |-> done.result, ret |-> ""]
  /\ UNCHANGED <<phase, auth_key, firstReq>>

\* tba.team_key(identifier): no request, only a string
TeamKeyCall(identifier) ==
  /\ phase = "ready"
  /\ calls < MaxCalls
  /\ calls' = calls + 1
  /\ last' = [NoCall EXCEPT !.method = "team_key", !.args.identifier = identifier,
                !.outcome = "returned", !.ret = team_key(identifier)]
  /\ UNCHANGED <<phase, auth_key, sent, firstReq, lastReq>>

StatusCall(resp) == Invoke("status", NoArgs, status, resp)

TeamsCall(page, year, keys, resp) ==
  Invoke("teams", [NoArgs EXCEPT !.page = page, !.year = year, !.keys = keys],
         teams(page, year, keys), resp)

TeamCall(team_id, simple, resp) ==
  Invoke("team", [NoArgs EXCEPT !.team = team_id, !.simple = simple],
         team(team_id, simple), resp)

TeamEventsCall(team_id, year, keys, resp) ==
  Invoke("team_events", [NoArgs EXCEPT !.team = team_id, !.year = year, !.keys = keys],
         team_events(team_id, year, keys), resp)

TeamAwardsCall(team_id, year, event_key, resp) ==
  Invoke("team_awards", [NoArgs EXCEPT !.team = team_id, !.year = year, !.event = event_key],
         team_awards(team_id, year, event_key), resp)

TeamMatchesCall(team_id, event_key, year, keys, resp) ==
  Invoke("team_matches",
         [NoArgs EXCEPT !.team = team_id, !.event = event_key, !.year = year, !.keys = keys],
         team_matches(team_id, event_key, year, keys), resp)

TeamYearsCall(team_id, resp) ==
  Invoke("team_years", [NoArgs EXCEPT !.team = team_id], team_years(team_id), resp)

TeamMediaCall(team_id, year, resp) ==
  Invoke("team_media", [NoArgs EXCEPT !.team = team_id, !.year = year],
         team_media(team_id, year), resp)

TeamRobotsCall(team_id, resp) ==
  Invoke("team_robots", [NoArgs EXCEPT !.team = team_id], team_robots(team_id), resp)

TeamDistrictsCall(team_id, resp) ==
  Invoke("team_districts", [NoArgs EXCEPT !.team = team_id], team_districts(team_id), resp)

TeamSocialMediaCall(team_id, resp) ==
  Invoke("team_social_media", [NoArgs EXCEPT !.team = team_id],
         team_social_media(team_id), resp)

EventsCall(year, keys, simple, resp) ==
  Invoke("events", [NoArgs EXCEPT !.year = year, !.keys = keys, !.simple = simple],
         events(year, keys, simple), resp)

EventCall(event_key, simple, resp) ==
  Invoke("event", [NoArgs EXCEPT !.event = event_key, !.simple = simple],
         event(event_key, simple), resp)

EventAlliancesCall(event_key, resp) ==
  Invoke("event_alliances", [NoArgs EXCEPT !.event = event_key],
         event_alliances(event_key), resp)

EventDistrictPointsCall(event_key, resp) ==
  Invoke("event_district_points", [NoArgs EXCEPT !.event = event_key],
         event_district_points(event_key), resp)

EventInsightsCall(event_key, resp) ==
  Invoke("event_insights", [NoArgs EXCEPT !.event = event_key],
         event_insights(event_key), resp)

EventOprsCall(event_key, resp) ==
  Invoke("event_oprs", [NoArgs EXCEPT !.event = event_key], event_oprs(event_key), resp)

EventPredictionsCall(event_key, resp) ==
  Invoke("event_predictions", [NoArgs EXCEPT !.event = event_key],
         event_predictions(event_key), resp)

EventRankingsCall(event_key, resp) ==
  Invoke("event_rankings", [NoArgs EXCEPT !.event = event_key],
         event_rankings(event_key), resp)

EventTeamsCall(event_key, keys, resp) ==
  Invoke("event_teams", [NoArgs EXCEPT !.event = event_key, !.keys = keys],
         event_teams(event_key, keys), resp)

EventAwardsCall(event_key, resp) ==
  Invoke("event_awards", [NoArgs EXCEPT !.event = event_key],
         event_awards(event_key), resp)

EventMatchesCall(event_key, keys, resp) ==
  Invoke("event_matches", [NoArgs EXCEPT !.event = event_key, !.keys = keys],
         event_matches(event_key, keys), resp)

MatchCall(key, year, event_key, type, number, round, simple, resp) ==
  Invoke("match",
         [NoArgs EXCEPT !.key = key, !.year = year, !.event = event_key, !.type = type,
                        !.number = number, !.round = round, !.simple = simple],
         match(key, year, event_key, type, number, round, simple), resp)

DistrictsCall(year, resp) ==
  Invoke("districts", [NoArgs EXCEPT !.year = year], districts(year), resp)

DistrictEventsCall(district, keys, resp) ==
  Invoke("district_events", [NoArgs EXCEPT !.district = district, !.keys = keys],
         district_events(district, keys), resp)

DistrictRankingsCall(district, resp) ==
  Invoke("district_rankings", [NoArgs EXCEPT !.district = district],
         district_rankings(district), resp)

DistrictTeamsCall(district, year, keys, resp) ==
  Invoke("district_teams",
         [NoArgs EXCEPT !.district = district, !.year = year, !.keys = keys],
         district_teams(district, year, keys), resp)

Next ==
  \/ \E k \in AuthKeys, resp \in Responses : Construct(k, resp)
  \/ \E identifier \in Identifiers : TeamKeyCall(identifier)
  \/ \E resp \in Responses : StatusCall(resp)
  \/ \E page \in Pages, year \in OptYears, keys \in BOOLEAN, resp \in Responses :
       TeamsCall(page, year, keys, resp)
  \/ \E team_id \in TeamIds, simple \in BOOLEAN, resp \in Responses :
       TeamCall(team_id, simple, resp)
  \/ \E team_id \in TeamIds, year \in OptYears, keys \in BOOLEAN, resp \in Responses :
       TeamEventsCall(team_id, year, keys, resp)
  \/ \E team_id \in TeamIds, year \in OptYears, event_key \in TeamEvents, resp \in Responses :
       TeamAwardsCall(team_id, year, event_key, resp)
  \/ \E team_id \in TeamIds, event_key \in TeamEvents, year \in OptYears, keys \in BOOLEAN,
        resp \in Responses :
       TeamMatchesCall(team_id, event_key, year, keys, resp)
  \/ \E team_id \in TeamIds, resp \in Responses : TeamYearsCall(team_id, resp)
  \/ \E team_id \in TeamIds, year \in Years, resp \in Responses :
       TeamMediaCall(team_id, year, resp)
  \/ \E team_id \in TeamIds, resp \in Responses : TeamRobotsCall(team_id, resp)
  \/ \E team_id \in TeamIds, resp \in Responses : TeamDistrictsCall(team_id, resp)
  \/ \E team_id \in TeamIds, resp \in Responses : TeamSocialMediaCall(team_id, resp)
  \/ \E year \in Years, keys \in BOOLEAN, simple \in BOOLEAN, resp \in Responses :
       EventsCall(year, keys, simple, resp)
  \/ \E event_key \in EventKeys, simple \in BOOLEAN, resp \in Responses :
       EventCall(event_key, simple, resp)
  \/ \E event_key \in EventKeys, resp \in Responses : EventAlliancesCall(event_key, resp)
  \/ \E event_key \in EventKeys, resp \in Responses : EventDistrictPointsCall(event_key, resp)
  \/ \E event_key \in EventKeys, resp \in Responses : EventInsightsCall(event_key, resp)
  \/ \E event_key \in EventKeys, resp \in Responses : EventOprsCall(event_key, resp)
  \/ \E event_key \in EventKeys, resp \in Responses : EventPredictionsCall(event_key, resp)
  \/ \E event_key \in EventKeys, resp \in Responses : EventRankingsCall(event_key, resp)
  \/ \E event_key \in EventKeys, keys \in BOOLEAN, resp \in Responses :
       EventTeamsCall(event_key, keys, resp)
  \/ \E event_key \in EventKeys, resp \in Responses : EventAwardsCall(event_key, resp)
  \/ \E event_key \in EventKeys, keys \in BOOLEAN, resp \in Responses :
       EventMatchesCall(event_key, keys, resp)
  \/ \E key \in MatchKeys, simple \in BOOLEAN, resp \in Responses :
       MatchCall(key, None, None, "qm", None, None, simple, resp)
  \/ \E year \in OptYears, event_key \in OptEvents, type \in MatchTypes,
        number \in Numbers, round \in Rounds, resp \in Responses :
       MatchCall(None, year, event_key, type, number, round, FALSE, resp)
  \/ \E year \in Years, resp \in Responses : DistrictsCall(year, resp)
  \/ \E district \in Districts, keys \in BOOLEAN, resp \in Responses :
       DistrictEventsCall(district, keys, resp)
  \/ \E district \in Districts, resp \in Responses : DistrictRankingsCall(district, resp)
  \/ \E district \in Districts, year \in Years, keys \in BOOLEAN, resp \in Responses :
       DistrictTeamsCall(district, year, keys, resp)

Spec == Init /\ [][Next]_vars

(***************************************************************************)
(* Vocabulary of the properties.                                           *)
(***************************************************************************)
StartsWith(str, pre) == Len(str) >= Len(pre) /\ SubSeq(str, 1, Len(pre)) = pre
EndsWith(str, suf) ==
  Len(str) >= Len(suf) /\ SubSeq(str, Len(str) - Len(suf) + 1, Len(str)) = suf
Occurs(sub, str) ==
  \E i \in 1..(Len(str) - Len(sub) + 1) : SubSeq(str, i, i + Len(sub) - 1) = sub
HasKey(json, k) == json.kind = "map" /\ \E i \in 1..Len(json.keys) : json.keys[i] = k

DigitVal(c) ==
  CASE c = "0" -> 0 [] c = "1" -> 1 [] c = "2" -> 2 [] c = "3" -> 3 [] c = "4" -> 4
    [] c = "5" -> 5 [] c = "6" -> 6 [] c = "7" -> 7 [] c = "8" -> 8 [] OTHER -> 9
RECURSIVE ParseNat(_)
ParseNat(str) ==
  IF Len(str) = 0 THEN 0
  ELSE 10 * ParseNat(SubSeq(str, 1, Len(str) - 1)) + DigitVal(SubSeq(str, Len(str), Len(str)))
\* str is the decimal numeral of the natural number n
IsNumeral(str, n) ==
  /\ Len(str) >= 1
  /\ \A i \in 1..Len(str) : IsDigit(SubSeq(str, i, i))
  /\ (Len(str) > 1 => SubSeq(str, 1, 1) # "0")
  /\ ParseNat(str) = n
\* str is the decimal form of the integer n
IsDecimal(str, n) ==
  IF n < 0
  THEN StartsWith(str, "-") /\ IsNumeral(SubSeq(str, 2, Len(str)), 0 - n)
  ELSE IsNumeral(str, n)

TeamScoped ==
  {"team", "team_events", "team_awards", "team_matches", "team_years", "team_media",
   "team_robots", "team_districts", "team_social_media"}
SingleMethods ==
  {"status", "team", "event", "event_district_points", "event_insights", "event_oprs",
   "event_predictions", "event_rankings", "match"}
ListMethods ==
  {"teams", "team_events", "team_awards", "team_matches", "team_media", "team_robots",
   "team_districts", "team_social_media", "events", "event_alliances", "event_teams",
   "event_awards", "event_matches", "districts", "district_events", "district_rankings",
   "district_teams"}
FlagMethods ==
  {"team", "events", "event", "teams", "team_events", "team_matches", "event_teams",
   "event_matches", "district_events", "district_teams"}
Facade == SingleMethods \cup ListMethods \cup {"team_years"}

\* the record type the endpoint's resources are documented to have
RecordTypeOf(method) ==
  CASE method \in {"teams", "team", "event_teams", "district_teams"} -> "Team"
    [] method \in {"team_events", "events", "event", "district_events"} -> "Event"
    [] method \in {"team_awards", "event_awards"} -> "Award"
    [] method \in {"team_matches", "event_matches", "match"} -> "Match"
    [] method = "team_media" -> "Media"
    [] method = "team_robots" -> "Robot"
    [] method \in {"team_districts", "districts"} -> "District"
    [] method = "team_social_media" -> "Profile"
    [] method = "event_alliances" -> "Alliance"
    [] method = "event_district_points" -> "DistrictPoints"
    [] method = "event_insights" -> "Insights"
    [] method = "event_oprs" -> "OPRs"
    [] method = "event_predictions" -> "Predictions"
    [] method = "event_rankings" -> "Rankings"
    [] method = "district_rankings" -> "DistrictRanking"
    [] method = "status" -> "Status"
    [] OTHER -> ""

(***************************************************************************)
(* C1: construction issues exactly one request, to `status`, before any    *)
(* other; a decoded mapping with the key `Error` makes construction fail   *)
(* with an API-key error, after which no method is called and no further   *)
(* request is issued.                                                      *)
(***************************************************************************)
C1_ConstructionStatusCheck ==
  /\ phase = "none" => sent = 0 /\ calls = 0
  /\ phase # "none" => /\ sent >= 1
                       /\ firstReq.path = "status"
                       /\ firstReq.url = "https://www.thebluealliance.com/api/v3/status"
  /\ last.method = "__init__" => sent = 1 /\ lastReq = firstReq /\ last.nreq = 1
  /\ (last.method = "__init__" /\ HasKey(last.resp, "Error"))
       => phase = "failed" /\ last.outcome = "raised" /\ last.err = "APIKeyError"
  /\ phase = "failed" => /\ last.method = "__init__"
                         /\ sent = 1
                         /\ calls = 0
                         /\ lastReq.path = "status"

C1_Witness ==
  phase = "failed" /\ last.err = "APIKeyError" /\ HasKey(last.resp, "Error") /\ sent = 1

(***************************************************************************)
(* C2: every facade call that returns has issued exactly one GET request.  *)
(***************************************************************************)
C2_OneRequestPerCall ==
  (last.method \in Facade /\ last.outcome = "returned") => last.nreq = 1

(***************************************************************************)
(* C3: every team-scoped method requests `team/{key}` or `team/{key}/...`  *)
(* with {key} the normalized team key; team_social_media requests          *)
(* `team/{key}/social_media`.                                              *)
(***************************************************************************)
C3_TeamScopedPaths ==
  (last.method \in TeamScoped /\ last.nreq = 1) =>
    LET pre == "team/" \o team_key(last.args.team)
    IN /\ StartsWith(last.path, pre)
       /\ last.path # pre => SubSeq(last.path, Len(pre) + 1, Len(pre) + 1) = "/"
       /\ last.method = "team_social_media" => last.path = pre \o "/social_media"

(***************************************************************************)
(* C4 as stated: teams requests `teams/{page}`, then `/{year}` when a year *)
(* is given, then `/keys` when keys is true.                               *)
(***************************************************************************)
C4_PageBeforeYear ==
  last.method = "teams" =>
    last.path = "teams/" \o Fmt(last.args.page)
                  \o (IF Truthy(last.args.year) THEN "/" \o Fmt(last.args.year) ELSE "")
                  \o (IF last.args.keys THEN "/keys" ELSE "")

(***************************************************************************)
(* C4 amended: teams requests `teams/`, then `{year}/` when a non-zero     *)
(* year is given, then `{page}`, then `/keys` when keys is true: the year  *)
(* segment comes before the page segment.                                  *)
(***************************************************************************)
C4_YearBeforePage ==
  last.method = "teams" =>
    /\ last.nreq = 1
    /\ last.path = "teams/"
                     \o (IF Truthy(last.args.year) THEN Fmt(last.args.year) \o "/" ELSE "")
                     \o Fmt(last.args.page)
                     \o (IF last.args.keys THEN "/keys" ELSE "")
    /\ (last.args.page = IntV(1) /\ last.args.year = IntV(2017))
         => last.path = IF last.args.keys THEN "teams/2017/1/keys" ELSE "teams/2017/1"
    /\ (last.args.page = IntV(1) /\ last.args.year = None)
         => last.path = IF last.args.keys THEN "teams/1/keys" ELSE "teams/1"

C4_Witness ==
  last.method = "teams" /\ last.args.year = IntV(2017) /\ last.args.page = IntV(1)
    /\ last.args.keys /\ last.path = "teams/2017/1/keys"

(***************************************************************************)
(* C5: match() without a direct key requests `match/<K>`, K being the year *)
(* only if the event key does not start with a digit, the event key, `_`,  *)
(* the type and the number, and `m<round>` only if the type is not 'qm'.   *)
(***************************************************************************)
C5_ComposedMatchKey ==
  (last.method = "match" /\ ~Truthy(last.args.key) /\ last.nreq = 1) =>
    LET a == last.args
        ev == a.event.s
        digitFirst == IsDigit(SubSeq(ev, 1, 1))
        tail == "_" \o a.type \o Fmt(a.number)
                  \o (IF a.type = "qm" THEN "" ELSE "m" \o Fmt(a.round))
    IN /\ StartsWith(last.path, "match/")
       /\ EndsWith(last.path, ev \o tail)
       /\ digitFirst => last.path = "match/" \o ev \o tail
       /\ (~digitFirst /\ a.year # None) =>
            last.path = "match/" \o Fmt(a.year) \o ev \o tail
       /\ a.type = "qm" => EndsWith(last.path, "_qm" \o Fmt(a.number))
       /\ (a.year = IntV(2017) /\ ev = "chcmp" /\ a.type = "qm" /\ a.number = IntV(2))
            => last.path = "match/2017chcmp_qm2"
       /\ (a.year = IntV(2017) /\ ev = "chcmp" /\ a.type = "sf" /\ a.number = IntV(2)
             /\ a.round = IntV(3))
            => last.path = "match/2017chcmp_sf2m3"
       /\ (ev = "2017chcmp" /\ a.type = "qm" /\ a.number = IntV(2))
            => last.path = "match/2017chcmp_qm2"

C5_Witness ==
  /\ last.method = "match"
  /\ last.args.key = None
  /\ last.args.year = IntV(2017)
  /\ last.args.event = StrV("2017chcmp")
  /\ last.args.type = "sf"
  /\ last.path = "match/2017chcmp_sf2m3"

(***************************************************************************)
(* C6: with both an event and a year, team_matches and team_awards request *)
(* the event-scoped path, in which the year is substituted nowhere; the    *)
(* year-scoped path is requested only without an event.                    *)
(***************************************************************************)
C6_EventBeforeYear ==
  (last.method \in {"team_matches", "team_awards"} /\ last.nreq = 1) =>
    LET a == last.args
        key == team_key(a.team)
        leaf == IF last.method = "team_awards" THEN "awards" ELSE "matches"
        keysSuffix == IF a.keys THEN "/keys" ELSE ""
    IN /\ (Truthy(a.event) /\ a.year # None) =>
            /\ last.path = "team/" \o key \o "/event/" \o a.event.s \o "/" \o leaf \o keysSuffix
            /\ Occurs(Fmt(a.year), last.path) =>
                 (Occurs(Fmt(a.year), key) \/ Occurs(Fmt(a.year), a.event.s))
       /\ (a.year # None
             /\ last.path = "team/" \o key \o "/" \o leaf \o "/" \o Fmt(a.year) \o keysSuffix)
            => ~Truthy(a.event)

C6_Witness ==
  /\ last.method = "team_matches"
  /\ last.args.team = IntV(254)
  /\ last.args.event = StrV("chcmp")
  /\ last.args.year = IntV(2017)
  /\ last.path = "team/frc254/event/chcmp/matches"

(***************************************************************************)
(* C7: a method whose result is a list of resources, called without keys,  *)
(* returns each decoded element wrapped in the endpoint's record type,     *)
(* for the simplified shape as for the full one.                           *)
(***************************************************************************)
C7_ListsAreWrapped ==
  (last.method \in ListMethods /\ last.nreq = 1 /\ ~last.args.keys) =>
    /\ last.result.kind = "list"
    /\ Len(last.result.elems) = Len(Iter(last.resp))
    /\ \A i \in 1..Len(last.result.elems) :
         /\ last.result.elems[i].type = RecordTypeOf(last.method)
         /\ last.result.elems[i].data = Iter(last.resp)[i]

C9_TeamKey ==
  [][(calls' # calls /\ last'.method = "team_key") =>
       LET id == last'.args.identifier
           ret == last'.ret
       IN /\ id.t = "str" => ret = id.s
          /\ id.t = "int" => /\ StartsWith(ret, "frc")
                             /\ IsDecimal(SubSeq(ret, 4, Len(ret)), id.n)
          /\ id = IntV(254) => ret = "frc254"
          /\ id = IntV(-5) => ret = "frc-5"
          /\ id = StrV("254") => ret = "254"
          /\ last'.nreq = 0
          /\ UNCHANGED <<phase, auth_key, sent, firstReq, lastReq>>]_vars

C9_Witness ==
  last.method = "team_key" /\ last.args.identifier = IntV(-5) /\ last.ret = "frc-5"

(***************************************************************************)
(* C10: after a successful construction, status() or a single-object       *)
(* method whose decoded response is a mapping with the key `Error` raises  *)
(* nothing and returns that mapping wrapped as a record; the client stays  *)
(* usable.                                                                 *)
(***************************************************************************)
C10_ErrorOnlyAtConstruction ==
  (last.method \in SingleMethods /\ last.nreq = 1 /\ HasKey(last.resp, "Error")) =>
    /\ last.outcome = "returned"
    /\ last.err = ""
    /\ last.result.kind = "record"
    /\ last.result.type = RecordTypeOf(last.method)
    /\ last.result.json = last.resp
    /\ phase = "ready"

C10_Witness ==
  /\ last.method = "status"
  /\ HasKey(last.resp, "Error")
  /\ last.outcome = "returned"
  /\ last.result.kind = "record"
  /\ phase = "ready"
  /\ calls = 1
  /\ ENABLED StatusCall(JsonMap(<<"city">>))

====
